---------------------------- MODULE Spec2Model ----------------------------
(***************************************************************************)
(* A model of cmd/register_account/register_account.go.                    *)
(*                                                                         *)
(* The file holds two variants of main:                                    *)
(*   - the key-only variant (lines 19-108) writes the bare PEM key and     *)
(*     then registers the account;                                         *)
(*   - the credentials variant (lines 130-232) registers the account and   *)
(*     then writes a JSON record {Uri, Key}.                               *)
(* A run is one execution of one variant.  pc is the position in main.     *)
(*                                                                         *)
(* client.Register is golang.org/x/crypto/acme's Client.Register.  Its     *)
(* steps (Discover, popNonce, sign, POST, interpretation of the answer,    *)
(* retry of retriable answers) are modelled as the steps the call at       *)
(* lines 91-95 / 187-191 performs; the CA's answers are inputs.            *)
(***************************************************************************)
EXTENDS Integers, Sequences, FiniteSets, TLC

VARIABLES
    variant,          \* which main is running: "key_only" or "credentials"
    emailAddress,     \* flag -email, a sequence of characters
    useStaging,       \* flag -staging
    pc,               \* position in main / in client.Register
    key,              \* the account key (ecdsa.GenerateKey)
    keyPemData,       \* pem.EncodeToMemory of the marshalled key
    file,             \* the output file at the -output path
    directoryUrl,     \* directoryUrl
    contactAddress,   \* "mailto:" + emailAddress
    client,           \* &acme.Client{Key, DirectoryURL} with its caches
    req,              \* registerRFC's request payload
    jws,              \* the signed request about to be posted
    retries,          \* the retryTimer's n of the get/post in progress
    response,         \* the answer to the last newAccount POST
    account,          \* the *acme.Account Register returned (credentials)
    accountCredentialsData, \* json.Marshal(accountCredentials)
    err,              \* the error Register returned
    fatal,            \* what LogFatalWithExitingMessage was called with
    net,              \* the network requests issued so far, in order
    nonceSeq,         \* how many nonces the CA has issued
    keysGenerated,    \* how many times ecdsa.GenerateKey succeeded
    registerCalls     \* how many times client.Register was called

vars == <<variant, emailAddress, useStaging, pc, key, keyPemData, file,
          directoryUrl, contactAddress, client, req, jws, retries, response,
          account, accountCredentialsData, err, fatal, net, nonceSeq,
          keysGenerated, registerCalls>>

---------------------------------------------------------------------------
(* Bounds *)

\* longest -email value tried
MaxEmailLen == 4
\* how many distinct private scalars ecdsa.GenerateKey can draw
NumKeys == 2
\* how many retriable answers (to the directory GET and to the newAccount
\* POST together) the CA gives in a run before it gives final ones
MaxRetries == 1

---------------------------------------------------------------------------
(* Inputs *)

Variants == {"key_only", "credentials"}

\* the characters of an -email value: an atext character, the "@", the
\* dot, the space, the angle brackets, the quote and the parentheses
Chars == {"a", "@", ".", " ", "<", ">", "\"", "(", ")"}

Emails == UNION {[1..n -> Chars] : n \in 0..MaxEmailLen}

\* the -email values of the runs whose termination is checked: the empty
\* one, a rejected one, a bare addr-spec and one with leading white space
SampleEmails ==
    {<<>>, <<"a", "@">>, <<"a", "@", "a">>, <<" ", "a", "@", "a">>}

\* the values of a Location header; "" is an absent header
Locations == {"", "https://ca/acct/1", "https://ca/acct/2"}

---------------------------------------------------------------------------
(* net/mail.ParseAddress.  A string is a sequence of one-character strings *)

Digits == {"0", "1", "2", "3", "4", "5", "6", "7", "8", "9"}

LowerSeq == <<"a", "b", "c", "d", "e", "f", "g", "h", "i", "j", "k", "l", "m",
              "n", "o", "p", "q", "r", "s", "t", "u", "v", "w", "x", "y", "z">>

UpperSeq == <<"A", "B", "C", "D", "E", "F", "G", "H", "I", "J", "K", "L", "M",
              "N", "O", "P", "Q", "R", "S", "T", "U", "V", "W", "X", "Y", "Z">>

Letters == {LowerSeq[k] : k \in DOMAIN LowerSeq} \cup {UpperSeq[k] : k \in DOMAIN UpperSeq}

HexDigits == Digits \cup {"a", "b", "c", "d", "e", "f", "A", "B", "C", "D", "E", "F"}

\* The characters that a string of this module cannot hold are written by
\* name: the backquote, U+017F (LATIN SMALL LETTER LONG S) and U+212A
\* (KELVIN SIGN)
Backquote == "U+0060"
LongS == "U+017F"
KelvinSign == "U+212A"

\* a byte of the string that is not part of a UTF-8 encoding; for it
\* utf8.DecodeRuneInString gives (utf8.RuneError, 1)
InvalidByte == "\\xFF"

\* the characters ' ' to '~'
Printable ==
    {" "} \cup Digits \cup Letters \cup
    {"!", "\"", "#", "$", "%", "&", "'", "(", ")", "*", "+", ",", "-", ".", "/",
     ":", ";", "<", "=", ">", "?", "@", "[", "\\", "]", "^", "_", Backquote,
     "{", "|", "}", "~"}

\* the ASCII control characters 0x01 to 0x1F and 0x7F (a command-line
\* argument holds no 0x00)
ControlChars ==
    {"\t", "\n", "\r", "\f",
     "", "", "", "", "", "", "", "",
     "", "", "", "", "", "", "", "",
     "", "", "", "", "", "", "", "",
     "", "", "", ""}

\* isMultibyte(r): r >= utf8.RuneSelf, that is r is not ASCII.  The rune of
\* an InvalidByte is utf8.RuneError, U+FFFD
isMultibyte(c) == c \notin Printable \cup ControlChars

\* isVchar(r): '!' <= r && r <= '~' || isMultibyte(r)
isVchar(c) == (c \in Printable /\ c # " ") \/ isMultibyte(c)

\* isWSP(r): r == ' ' || r == '\t'
isWSP(c) == c \in {" ", "\t"}

\* isAtext(r, dot): a vchar that is not one of RFC 5322's specials
isAtext(c, dot) ==
    IF c = "." THEN dot
    ELSE IF c \in {"(", ")", "<", ">", "[", "]", ":", ";", "@", "\\", ",", "\""}
         THEN FALSE
    ELSE isVchar(c)

\* isQtext(r): a vchar other than the backslash and the quote
isQtext(c) == c \notin {"\\", "\""} /\ isVchar(c)

\* isDtext(r): a vchar other than the brackets and the backslash
isDtext(c) == c \notin {"[", "]", "\\"} /\ isVchar(c)

\* the single element of a set of one element.  In The({e(x) : x \in {v}})
\* the value of v is computed once and x stands for it in e
The(S) == CHOOSE x \in S : TRUE

\* the first position at or after i whose character is not in `class`,
\* Len(s) + 1 when the rest of s is of the class
Span(s, i, class) ==
    The({(IF stops = {} THEN Len(s) + 1
          ELSE CHOOSE j \in stops : \A k \in stops : j <= k) :
            stops \in {{j \in i..Len(s) : s[j] \notin class}}})

\* p.peek() == c on a parser at position i
Peek(s, i, c) == i <= Len(s) /\ s[i] = c

\* p.skipSpace(): strings.TrimLeft(p.s, " \t")
skipSpace(s, i) == Span(s, i, {" ", "\t"})

\* consumeAtom(dot, permissive): the longest run of atext; a byte that is
\* not UTF-8 at its end is an error, an empty run is an error, and so,
\* unless permissive, are a leading dot, a double dot and a trailing dot
consumeAtom(s, i, dot, permissive) ==
    The({(LET atom == SubSeq(s, i, end - 1)
          IN  [err  |-> \/ end <= Len(s) /\ s[end] = InvalidByte
                        \/ atom = <<>>
                        \/ /\ ~permissive
                           /\ \/ atom[1] = "."
                              \/ \E k \in 1..(Len(atom) - 1) :
                                    atom[k] = "." /\ atom[k + 1] = "."
                              \/ atom[Len(atom)] = ".",
               next |-> end]) :
            end \in {The({(IF stops = {} THEN Len(s) + 1
                           ELSE CHOOSE j \in stops : \A k \in stops : j <= k) :
                            stops \in {{j \in i..Len(s) :
                                          \/ s[j] = InvalidByte
                                          \/ ~isAtext(s[j], dot)}}})}})

\* the loop of consumeQuotedString from position j; n characters of content
\* read so far.  The string must be closed and hold no byte that is not
\* UTF-8; an escaped character is a vchar or white space, any other one is
\* qtext or white space
RECURSIVE quotedStringLoop(_, _, _, _)
quotedStringLoop(s, j, escaped, n) ==
    IF j > Len(s) THEN [err |-> TRUE, next |-> j, len |-> n]
    ELSE IF s[j] = InvalidByte THEN [err |-> TRUE, next |-> j, len |-> n]
    ELSE IF escaped
         THEN IF ~isVchar(s[j]) /\ ~isWSP(s[j])
              THEN [err |-> TRUE, next |-> j, len |-> n]
              ELSE quotedStringLoop(s, j + 1, FALSE, n + 1)
    ELSE IF isQtext(s[j]) \/ isWSP(s[j])
         THEN quotedStringLoop(s, j + 1, FALSE, n + 1)
    ELSE IF s[j] = "\"" THEN [err |-> FALSE, next |-> j + 1, len |-> n]
    ELSE IF s[j] = "\\" THEN quotedStringLoop(s, j + 1, TRUE, n)
    ELSE [err |-> TRUE, next |-> j, len |-> n]

\* consumeQuotedString: s[i] is the opening quote; len is the length of
\* the string between the quotes, quoted pairs resolved
consumeQuotedString(s, i) == quotedStringLoop(s, i + 1, FALSE, 0)

\* parseIPv4Fields(in, off, end): four decimal octets separated by dots
RECURSIVE parseIPv4Fields(_, _, _, _, _, _, _)
parseIPv4Fields(s, off, end, i, val, pos, digLen) ==
    IF i > end THEN pos = 3
    ELSE IF s[i] \in Digits
         THEN LET d == CHOOSE n \in 0..9 :
                          s[i] = <<"0", "1", "2", "3", "4", "5", "6", "7", "8", "9">>[n + 1]
                  v == val * 10 + d
              IN  /\ ~(digLen = 1 /\ val = 0)
                  /\ v <= 255
                  /\ parseIPv4Fields(s, off, end, i + 1, v, pos, digLen + 1)
    ELSE IF s[i] = "."
         THEN /\ ~(i = off \/ i = end \/ s[i - 1] = ".")
              /\ pos # 3
              /\ parseIPv4Fields(s, off, end, i + 1, 0, pos + 1, 0)
    ELSE FALSE

\* the loop of parseIPv6 from position p, with i bytes of the address
\* filled: a group of one to four hex digits, then the end, a colon, a
\* double colon or, for the group that starts an embedded IPv4 address, a dot
RECURSIVE parseIPv6Loop(_, _, _, _)
parseIPv6Loop(s, p, i, ellipsis) ==
    The({(IF q = p \/ q - p > 4 THEN FALSE
          ELSE IF Peek(s, q, ".")
               THEN /\ ellipsis \/ i = 12
                    /\ i + 4 <= 16
                    /\ parseIPv4Fields(s, p, Len(s), p, 0, 0, 0)
                    /\ IF i + 4 < 16 THEN ellipsis ELSE ~ellipsis
          ELSE IF q > Len(s) THEN (IF i + 2 < 16 THEN ellipsis ELSE ~ellipsis)
          ELSE IF s[q] # ":" \/ q = Len(s) THEN FALSE
          ELSE IF s[q + 1] = ":"
               THEN /\ ~ellipsis
                    /\ i + 2 < 16
                    /\ q + 2 > Len(s) \/ parseIPv6Loop(s, q + 2, i + 2, TRUE)
          ELSE i + 2 < 16 /\ parseIPv6Loop(s, q + 1, i + 2, ellipsis)) :
            q \in {Span(s, p, HexDigits)}})

\* parseIPv6 on a string without a zone
parseIPv6(s) ==
    IF Len(s) >= 2 /\ s[1] = ":" /\ s[2] = ":"
    THEN Len(s) = 2 \/ parseIPv6Loop(s, 3, 0, TRUE)
    ELSE parseIPv6Loop(s, 1, 0, FALSE)

\* net.ParseIP(s) != nil: netip.ParseAddr accepts s and s has no zone
ParseIP(s) ==
    The({(/\ seps # {}
          /\ \A j \in 1..Len(s) : s[j] # "%"
          /\ IF s[CHOOSE j \in seps : \A k \in seps : j <= k] = "."
             THEN parseIPv4Fields(s, 1, Len(s), 1, 0, 0, 0)
             ELSE parseIPv6(s)) :
            seps \in {{j \in 1..Len(s) : s[j] \in {".", ":", "%"}}}})

\* consumeDomainLiteral: "[" dtext "]" where dtext is an IP address; a
\* byte that is not UTF-8 ends it with an error as a character that is
\* not dtext does
consumeDomainLiteral(s, i) ==
    The({[err  |-> \/ end > Len(s)
                   \/ s[end] # "]"
                   \/ ~ParseIP(SubSeq(s, i + 1, end - 1)),
          next |-> end + 1] :
            end \in {The({(IF stops = {} THEN Len(s) + 1
                           ELSE CHOOSE j \in stops : \A k \in stops : j <= k) :
                            stops \in {{j \in (i + 1)..Len(s) :
                                          \/ s[j] = InvalidByte
                                          \/ ~isDtext(s[j])}}})}})

\* the lower-case ASCII letter of c's orbit under unicode.SimpleFold when
\* the orbit has one (the orbit of "s" holds U+017F, that of "k" U+212A),
\* c itself otherwise
Fold(c) ==
    IF \E n \in DOMAIN UpperSeq : UpperSeq[n] = c
    THEN LowerSeq[CHOOSE n \in DOMAIN UpperSeq : UpperSeq[n] = c]
    ELSE IF c = LongS THEN "s"
    ELSE IF c = KelvinSign THEN "k"
    ELSE c

\* strings.EqualFold(name, charset), name being one of the ASCII names
\* convert knows
EqualFold(name, charset) ==
    /\ Len(name) = Len(charset)
    /\ \A k \in DOMAIN name : Fold(name[k]) = Fold(charset[k])

\* mime's qDecode succeeds on text
qDecodes(text) ==
    \A k \in 1..Len(text) :
        \* a hex digit of an escape is checked with the escape
        IF text[k] = "="
        THEN /\ k + 2 <= Len(text)
             /\ text[k + 1] \in HexDigits
             /\ text[k + 2] \in HexDigits
        ELSE text[k] \in Printable \cup {"\n", "\r", "\t"}

\* base64.StdEncoding.DecodeString succeeds on text: the carriage returns
\* and line feeds are skipped, and what is left is groups of four
\* characters of the alphabet, the last one padded with "=" or "=="
base64Decodes(text) ==
    LET alphabet   == Letters \cup Digits \cup {"+", "/"}
        isCoded(c) == c \notin {"\r", "\n"}
        coded      == SelectSeq(text, isCoded)
        n          == Len(coded)
    IN  /\ n % 4 = 0
        /\ \A k \in 1..(n - 2) : coded[k] \in alphabet
        /\ n > 0 => \/ coded[n - 1] \in alphabet /\ coded[n] \in alphabet
                    \/ coded[n - 1] \in alphabet /\ coded[n] = "="
                    \/ coded[n - 1] = "=" /\ coded[n] = "="

\* decodeRFC2047Word(word): err is set only for a charsetError, that is
\* when word is a decodable encoded-word "=?charset?enc?text?=" whose
\* charset is none of utf-8, iso-8859-1 and us-ascii
decodeRFC2047Word(word) ==
    LET n       == Len(word)
        marks   == {k \in 1..n : word[k] = "?"}
        inner   == SubSeq(word, 3, n - 2)
        qs      == {k \in DOMAIN inner : inner[k] = "?"}
        split   == IF qs = {} THEN Len(inner) + 1
                   ELSE CHOOSE k \in qs : \A m \in qs : k <= m
        charset == SubSeq(inner, 1, split - 1)
        text    == SubSeq(inner, split + 3, Len(inner))
    IN  [err |-> /\ n >= 8
                 /\ word[1] = "=" /\ word[2] = "?"
                 /\ word[n - 1] = "?" /\ word[n] = "="
                 /\ Cardinality(marks) = 4
                 /\ charset # <<>>
                 /\ Len(inner) >= split + 2
                 /\ inner[split + 2] = "?"
                 /\ \/ inner[split + 1] \in {"B", "b"} /\ base64Decodes(text)
                    \/ inner[split + 1] \in {"Q", "q"} /\ qDecodes(text)
                 /\ \A name \in {<<"u", "t", "f", "-", "8">>,
                                   <<"i", "s", "o", "-", "8", "8", "5", "9", "-", "1">>,
                                   <<"u", "s", "-", "a", "s", "c", "i", "i">>} :
                        ~EqualFold(name, charset)]

\* the loop of consumeComment: pos is the parser's position, depth the
\* nesting, comment the text gathered
RECURSIVE consumeCommentLoop(_, _, _, _)
consumeCommentLoop(s, pos, depth, comment) ==
    IF pos > Len(s) \/ depth = 0
    THEN [err |-> depth # 0, next |-> pos, comment |-> comment]
    ELSE IF s[pos] = "\\" /\ pos < Len(s)
         THEN consumeCommentLoop(s, pos + 2, depth, Append(comment, s[pos + 1]))
    ELSE LET d == IF s[pos] = "(" THEN depth + 1
                  ELSE IF s[pos] = ")" THEN depth - 1
                  ELSE depth
         IN  consumeCommentLoop(s, pos + 1, d,
                                IF d > 0 THEN Append(comment, s[pos]) ELSE comment)

\* consumeComment: the "(" is consumed, i is the position after it
consumeComment(s, i) == consumeCommentLoop(s, i, 1, <<>>)

\* skipCFWS: white space and comments; err when a comment is not closed
RECURSIVE skipCFWS(_, _)
skipCFWS(s, i) ==
    The({(IF ~Peek(s, j, "(") THEN [err |-> FALSE, next |-> j]
          ELSE The({(IF c.err THEN [err |-> TRUE, next |-> c.next]
                     ELSE skipCFWS(s, c.next)) :
                        c \in {consumeComment(s, j + 1)}})) :
            j \in {skipSpace(s, i)}})

\* strings.FieldsFunc(comment, space or tab)
Fields(comment) ==
    {SubSeq(comment, a, b) : <<a, b>> \in
        {w \in (DOMAIN comment) \X (DOMAIN comment) :
            /\ w[1] <= w[2]
            /\ \A k \in w[1]..w[2] : ~isWSP(comment[k])
            /\ w[1] = 1 \/ isWSP(comment[w[1] - 1])
            /\ w[2] = Len(comment) \/ isWSP(comment[w[2] + 1])}}

\* consumeDisplayNameComment: s[i] is the "("
consumeDisplayNameComment(s, i) ==
    The({[err  |-> \/ c.err
                   \/ \E word \in Fields(c.comment) : decodeRFC2047Word(word).err,
          next |-> c.next] :
            c \in {consumeComment(s, i + 1)}})

\* the loop of consumePhrase with `words` words read: CFWS after a word,
\* then a quoted-string or a permissive dot-atom; an error is ignored once
\* a word has been read
RECURSIVE consumePhraseLoop(_, _, _)
consumePhraseLoop(s, pos, words) ==
    The({(IF cfws.err THEN [err |-> TRUE, next |-> cfws.next]
          ELSE The({(IF p > Len(s) THEN [err |-> FALSE, next |-> p]
                     ELSE IF s[p] = "\""
                          THEN The({(IF qs.err THEN [err |-> words = 0, next |-> p]
                                     ELSE consumePhraseLoop(s, qs.next, words + 1)) :
                                        qs \in {consumeQuotedString(s, p)}})
                     ELSE The({(IF atom.err THEN [err |-> words = 0, next |-> p]
                                ELSE IF decodeRFC2047Word(SubSeq(s, p, atom.next - 1)).err
                                     THEN [err |-> words = 0, next |-> atom.next]
                                ELSE consumePhraseLoop(s, atom.next, words + 1)) :
                                   atom \in {consumeAtom(s, p, TRUE, TRUE)}})) :
                        p \in {skipSpace(s, cfws.next)}})) :
            cfws \in {IF words > 0 THEN skipCFWS(s, pos)
                      ELSE [err |-> FALSE, next |-> pos]}})

\* consumePhrase: 1*word, a word being a quoted-string or a permissive
\* dot-atom
consumePhrase(s, i) == consumePhraseLoop(s, i, 0)

\* consumeAddrSpec: local-part "@" domain, white space skipped before
\* each; the local part is a dot-atom or a non-empty quoted-string, the
\* domain a dot-atom or a domain-literal; on an error the parser is put
\* back at i
consumeAddrSpec(s, i) ==
    The({(IF p1 > Len(s) THEN [err |-> TRUE, next |-> i]
          ELSE The({(IF localPart.err \/ ~Peek(s, localPart.next, "@")
                     THEN [err |-> TRUE, next |-> i]
                     ELSE The({(IF p2 > Len(s) THEN [err |-> TRUE, next |-> i]
                                ELSE The({(IF domain.err THEN [err |-> TRUE, next |-> i]
                                           ELSE [err |-> FALSE, next |-> domain.next]) :
                                              domain \in {IF s[p2] = "["
                                                          THEN consumeDomainLiteral(s, p2)
                                                          ELSE consumeAtom(s, p2, TRUE, FALSE)}})) :
                                   p2 \in {skipSpace(s, localPart.next + 1)}})) :
                        localPart \in {IF s[p1] = "\""
                                       THEN The({[err |-> qs.err \/ qs.len = 0, next |-> qs.next] :
                                                    qs \in {consumeQuotedString(s, p1)}})
                                       ELSE consumeAtom(s, p1, TRUE, FALSE)}})) :
            p1 \in {skipSpace(s, i)}})

RECURSIVE parseAddress(_, _, _)
RECURSIVE consumeGroupListLoop(_, _, _)

\* the loop of consumeGroupList with `count` addresses read: an address,
\* CFWS, then ";" and CFWS, or "," and the next address
consumeGroupListLoop(s, pos, count) ==
    The({(IF addrs.err THEN [err |-> TRUE, next |-> pos, count |-> 0]
          ELSE The({(IF cfws.err THEN [err |-> TRUE, next |-> pos, count |-> 0]
                     ELSE IF Peek(s, cfws.next, ";")
                          THEN The({[err |-> last.err, next |-> last.next,
                                     count |-> count + addrs.count] :
                                       last \in {skipCFWS(s, cfws.next + 1)}})
                     ELSE IF ~Peek(s, cfws.next, ",")
                          THEN [err |-> TRUE, next |-> cfws.next, count |-> 0]
                     ELSE consumeGroupListLoop(s, cfws.next + 1, count + addrs.count)) :
                        cfws \in {skipCFWS(s, addrs.next)}})) :
            addrs \in {parseAddress(s, skipSpace(s, pos), FALSE)}})

\* consumeGroupList: the addresses between the ":" and the ";" of a group
consumeGroupList(s, i) ==
    The({(IF Peek(s, p, ";")
          THEN The({[err |-> cfws.err, next |-> cfws.next, count |-> 0] :
                       cfws \in {skipCFWS(s, p + 1)}})
          ELSE consumeGroupListLoop(s, p, 0)) :
            p \in {skipSpace(s, i)}})

\* parseAddress(handleGroup): an addr-spec with an optional comment after
\* it, or else a name-addr [display-name] "<" addr-spec ">", or else, with
\* handleGroup, a group display-name ":" [group-list] ";"; count is the
\* number of addresses
parseAddress(s, i, handleGroup) ==
    The({(IF p0 > Len(s) THEN [err |-> TRUE, next |-> p0, count |-> 0]
          ELSE The({(IF ~spec.err
                     THEN The({(IF Peek(s, p1, "(")
                                THEN The({[err |-> name.err, next |-> name.next, count |-> 1] :
                                             name \in {consumeDisplayNameComment(s, p1)}})
                                ELSE [err |-> FALSE, next |-> p1, count |-> 1]) :
                                   p1 \in {skipSpace(s, spec.next)}})
                     ELSE The({(IF phrase.err THEN [err |-> TRUE, next |-> p0, count |-> 0]
                                ELSE The({(IF handleGroup /\ Peek(s, p2, ":")
                                           THEN consumeGroupList(s, p2 + 1)
                                           ELSE IF ~Peek(s, p2, "<")
                                                THEN [err |-> TRUE, next |-> p2, count |-> 0]
                                           ELSE The({(IF angle.err \/ ~Peek(s, angle.next, ">")
                                                      THEN [err |-> TRUE, next |-> p2, count |-> 0]
                                                      ELSE [err |-> FALSE, next |-> angle.next + 1,
                                                            count |-> 1]) :
                                                         angle \in {consumeAddrSpec(s, p2 + 1)}})) :
                                              p2 \in {skipSpace(s, phrase.next)}})) :
                                   phrase \in {IF s[p0] = "<" THEN [err |-> FALSE, next |-> p0]
                                               ELSE consumePhrase(s, p0)}})) :
                        spec \in {consumeAddrSpec(s, p0)}})) :
            p0 \in {skipSpace(s, i)}})

\* parseSingleAddress: one address, then CFWS, then the end of the string
parseSingleAddress(s) ==
    The({(IF addrs.err THEN [err |-> TRUE]
          ELSE The({[err |-> cfws.err \/ cfws.next <= Len(s) \/ addrs.count # 1] :
                       cfws \in {skipCFWS(s, addrs.next)}})) :
            addrs \in {parseAddress(s, 1, TRUE)}})

\* mail.ParseAddress(address)
ParseAddress(s) == parseSingleAddress(s)

---------------------------------------------------------------------------
(* Key material *)

NoKey == [curve |-> "none", d |-> 0]

\* ecdsa.GenerateKey(elliptic.P256(), rand.Reader) with private scalar d
GenerateKey(d) == [curve |-> "P-256", d |-> d]

\* x509.MarshalECPrivateKey: fails on a curve without a named-curve OID
MarshalECPrivateKey(k) ==
    IF k.curve \notin {"P-224", "P-256", "P-384", "P-521"}
    THEN [err |-> TRUE, der |-> [namedCurve |-> "none", privateKey |-> 0]]
    ELSE [err |-> FALSE, der |-> [namedCurve |-> k.curve, privateKey |-> k.d]]

NoData == [format |-> "none"]

\* pem.EncodeToMemory(&pem.Block{Type: "EC PRIVATE KEY", Bytes: keyDerData})
PemEncode(der) == [format |-> "pem", type |-> "EC PRIVATE KEY", bytes |-> der]

\* the public half of a key, as embedded in a JWS header
PublicJWK(k) == [crv |-> k.curve, pub |-> k.d]

---------------------------------------------------------------------------
(* Program constants *)

\* acme.LetsEncryptURL
LetsEncryptURL == "https://acme-v02.api.letsencrypt.org/directory"

StagingURL == "https://acme-staging-v02.api.letsencrypt.org/directory"

\* "mailto:"
MailtoPrefix == <<"m", "a", "i", "l", "t", "o", ":">>

\* acme.AcceptTOS: agrees to whatever terms it is shown
AcceptTOS(tosURL) == TRUE

NoFile == [exists |-> FALSE, data |-> NoData]

\* a file that is at the output path before the run starts
OldFile == [exists |-> TRUE, data |-> [format |-> "old"]]

\* os.WriteFile(name, data, 0600) with f at the path: OpenFile with
\* O_WRONLY|O_CREATE|O_TRUNC, Write, Close.  It succeeds, or fails at the
\* open (f is left as it was), at the write (the file is created or
\* truncated, and empty or cut short) or at the close (the data is there)
WriteFile(f, data) ==
    {[err |-> FALSE, file |-> [exists |-> TRUE, data |-> data]],
     [err |-> TRUE,  file |-> f],
     [err |-> TRUE,  file |-> [exists |-> TRUE, data |-> [format |-> "empty"]]],
     [err |-> TRUE,  file |-> [exists |-> TRUE, data |-> [format |-> "partial"]]],
     [err |-> TRUE,  file |-> [exists |-> TRUE, data |-> data]]}

NoFatal == [called |-> FALSE, msg |-> "", err |-> "nil"]

\* a URL: a resource of the CA whose directory is at `directory`
Endpoint(directory, resource) == [directory |-> directory, resource |-> resource]

\* the empty URL
NoURL == Endpoint("", "")

\* the other Let's Encrypt environment
OtherEnvironment(directory) ==
    IF directory = StagingURL THEN LetsEncryptURL ELSE StagingURL

\* the terms-of-service URLs a directory may advertise ("" is none)
TermsURLs == {"", "https://ca/terms"}

\* the directory documents the server at `directory` may answer with: one
\* that names its own endpoints, with or without terms of service, and ones
\* whose newNonce or newAccount is an endpoint of the other environment or
\* is missing
DirectoryDocuments(directory) ==
    LET own(terms) == [newNonce       |-> Endpoint(directory, "newNonce"),
                       newAccount     |-> Endpoint(directory, "newAccount"),
                       termsOfService |-> terms]
        other      == OtherEnvironment(directory)
    IN  {own(terms) : terms \in TermsURLs}
        \cup {[own("https://ca/terms") EXCEPT !.newNonce = Endpoint(other, "newNonce")],
              [own("https://ca/terms") EXCEPT !.newAccount = Endpoint(other, "newAccount")],
              [own("https://ca/terms") EXCEPT !.newNonce = NoURL],
              [own("https://ca/terms") EXCEPT !.newAccount = NoURL]}

\* the directory document a failed fetch leaves unread
NoDocument == [newNonce |-> NoURL, newAccount |-> NoURL, termsOfService |-> ""]

\* Discover's c.dir: the fields of the document v, copied as they are
Directory(v) ==
    [fetched  |-> TRUE,
     NonceURL |-> v.newNonce,
     RegURL   |-> v.newAccount,
     Terms    |-> v.termsOfService]

NoDirectory ==
    [fetched  |-> FALSE,
     NonceURL |-> NoURL,
     RegURL   |-> NoURL,
     Terms    |-> ""]

\* an acme.Client before its first call: no directory, no nonce, no key ID
NoClient == [Key |-> NoKey, DirectoryURL |-> "", dir |-> NoDirectory,
             nonce |-> 0, KID |-> ""]

NilAccount == [isNil |-> TRUE, URI |-> ""]

NoReq == [built |-> FALSE, Contact |-> <<>>, TermsAgreed |-> FALSE]

NoJws == [signed |-> FALSE, nonce |-> 0, url |-> NoURL,
          jwk |-> PublicJWK(NoKey), payload |-> NoReq, signedBy |-> NoKey]

NoResponse == [received |-> FALSE, transport |-> FALSE, status |-> 0,
               location |-> "", bodyOK |-> FALSE, badNonce |-> FALSE,
               nonce |-> FALSE]

---------------------------------------------------------------------------
(* Initial state: the flags are parsed, nothing else has happened; the     *)
(* output path holds no file or an earlier one                            *)

Start(emails) ==
    /\ variant \in Variants
    /\ emailAddress \in emails
    /\ useStaging \in BOOLEAN
    /\ pc = "check_empty"
    /\ key = NoKey
    /\ keyPemData = NoData
    /\ file \in {NoFile, OldFile}
    /\ directoryUrl = ""
    /\ contactAddress = <<>>
    /\ client = NoClient
    /\ req = NoReq
    /\ jws = NoJws
    /\ retries = 0
    /\ response = NoResponse
    /\ account = NilAccount
    /\ accountCredentialsData = NoData
    /\ err = "unset"
    /\ fatal = NoFatal
    /\ net = <<>>
    /\ nonceSeq = 0
    /\ keysGenerated = 0
    /\ registerCalls = 0

Init == Start(Emails)

\* the same start with the -email value drawn from SampleEmails
SampleInit == Start(SampleEmails)

\* motmedelLog.LogFatalWithExitingMessage(msg, e, logger): logs and exits
LogFatal(msg, e) ==
    /\ fatal' = [called |-> TRUE, msg |-> msg, err |-> e]
    /\ pc' = "fatal"

---------------------------------------------------------------------------
(* main, up to the call of client.Register *)

\* if emailAddress == "" { LogFatal("The email address is empty.", nil) }
CheckEmpty ==
    /\ pc = "check_empty"
    /\ IF emailAddress = <<>>
       THEN LogFatal("The email address is empty.", "nil")
       ELSE pc' = "parse_address" /\ fatal' = fatal
    /\ UNCHANGED <<variant, emailAddress, useStaging, key, keyPemData, file,
                   directoryUrl, contactAddress, client, req, jws, retries,
                   response, account, accountCredentialsData, err, net,
                   nonceSeq, keysGenerated, registerCalls>>

\* if _, err := mail.ParseAddress(emailAddress); err != nil { LogFatal(InputError) }
ValidateEmail ==
    /\ pc = "parse_address"
    /\ IF ParseAddress(emailAddress).err
       THEN LogFatal("The email address is invalid.", "InputError")
       ELSE pc' = "generate_key" /\ fatal' = fatal
    /\ UNCHANGED <<variant, emailAddress, useStaging, key, keyPemData, file,
                   directoryUrl, contactAddress, client, req, jws, retries,
                   response, account, accountCredentialsData, err, net,
                   nonceSeq, keysGenerated, registerCalls>>

\* key, err := ecdsa.GenerateKey(elliptic.P256(), rand.Reader)
ProduceKey ==
    /\ pc = "generate_key"
    /\ \E failed \in BOOLEAN :
          IF failed
          THEN /\ LogFatal("An error occurred when generating an account key.",
                           "CauseError")
               /\ UNCHANGED <<key, keysGenerated>>
          ELSE \E d \in 1..NumKeys :
                  /\ key' = GenerateKey(d)
                  /\ keysGenerated' = keysGenerated + 1
                  /\ pc' = "marshal_key"
                  /\ fatal' = fatal
    /\ UNCHANGED <<variant, emailAddress, useStaging, keyPemData, file,
                   directoryUrl, contactAddress, client, req, jws, retries,
                   response, account, accountCredentialsData, err, net,
                   nonceSeq, registerCalls>>

\* EncodeKey marshalling a key other than the one generated
EncodeKey_OtherKey ==
    /\ pc = "marshal_key"
    /\ keyPemData' = PemEncode(MarshalECPrivateKey(GenerateKey(1)).der)
    /\ pc' = IF variant = "key_only" THEN "write_key" ELSE "select_directory"
    /\ UNCHANGED <<variant, emailAddress, useStaging, key, file, directoryUrl,
                   contactAddress, client, req, jws, retries, response, account,
                   accountCredentialsData, err, fatal, net, nonceSeq,
                   keysGenerated, registerCalls>>

\* keyDerData, err := x509.MarshalECPrivateKey(key); keyPemData := pem.EncodeToMemory(...)
EncodeKey ==
    /\ pc = "marshal_key"
    /\ LET m == MarshalECPrivateKey(key)
       IN  IF m.err
           THEN /\ LogFatal("An error occurred when marshalling the account key data.",
                            "CauseError")
                /\ keyPemData' = keyPemData
           ELSE /\ keyPemData' = PemEncode(m.der)
                /\ pc' = IF variant = "key_only" THEN "write_key" ELSE "select_directory"
                /\ fatal' = fatal
    /\ UNCHANGED <<variant, emailAddress, useStaging, key, file, directoryUrl,
                   contactAddress, client, req, jws, retries, response, account,
                   accountCredentialsData, err, net, nonceSeq, keysGenerated,
                   registerCalls>>

\* key-only variant: os.WriteFile(keyOutputPath, keyPemData, 0600), before
\* the registration
WriteKeyFile ==
    /\ pc = "write_key"
    /\ \E w \in WriteFile(file, keyPemData) :
          /\ file' = w.file
          /\ IF w.err
             THEN LogFatal("An error occurred when writing the account key PEM data to a file.",
                           "InputError")
             ELSE pc' = "select_directory" /\ fatal' = fatal
    /\ UNCHANGED <<variant, emailAddress, useStaging, key, keyPemData,
                   directoryUrl, contactAddress, client, req, jws, retries,
                   response, account, accountCredentialsData, err, net,
                   nonceSeq, keysGenerated, registerCalls>>

\* the directory URL with the -staging flag ignored
SelectedDirectoryUrl_AlwaysProduction == LetsEncryptURL

\* directoryUrl := acme.LetsEncryptURL; if useStaging { directoryUrl = staging }
SelectedDirectoryUrl == IF useStaging THEN StagingURL ELSE LetsEncryptURL

\* SelectDirectory with the contact left without its "mailto:" prefix
SelectDirectory_NoMailto ==
    /\ pc = "select_directory"
    /\ directoryUrl' = SelectedDirectoryUrl
    /\ contactAddress' = emailAddress
    /\ client' = [NoClient EXCEPT !.Key = key, !.DirectoryURL = directoryUrl']
    /\ pc' = "register"
    /\ UNCHANGED <<variant, emailAddress, useStaging, key, keyPemData, file,
                   req, jws, retries, response, account, accountCredentialsData,
                   err, fatal, net, nonceSeq, keysGenerated, registerCalls>>

\* directoryUrl, contactAddress and client are set up
SelectDirectory ==
    /\ pc = "select_directory"
    /\ directoryUrl' = SelectedDirectoryUrl
    /\ contactAddress' = MailtoPrefix \o emailAddress
    /\ client' = [NoClient EXCEPT !.Key = key, !.DirectoryURL = directoryUrl']
    /\ pc' = "register"
    /\ UNCHANGED <<variant, emailAddress, useStaging, key, keyPemData, file,
                   req, jws, retries, response, account, accountCredentialsData,
                   err, fatal, net, nonceSeq, keysGenerated, registerCalls>>

---------------------------------------------------------------------------
(* client.Register: golang.org/x/crypto/acme *)

\* isRetriable(code): the status codes get and post try again
isRetriable(code) == code <= 399 \/ code >= 500 \/ code = 429

\* wantStatus(http.StatusOK, http.StatusCreated)
wantStatusOKCreated(code) == code \in {200, 201}

\* an answer of the transport or of the CA to one request
Answer(transport, status, location, bodyOK, badNonce, nonce) ==
    [received |-> TRUE, transport |-> transport, status |-> status,
     location |-> location, bodyOK |-> bodyOK, badNonce |-> badNonce,
     nonce |-> nonce]

TransportError == Answer(TRUE, 0, "", FALSE, FALSE, FALSE)

\* the answers to GET <directory>: the directory document (well-formed or
\* not, with or without a Replay-Nonce header), a final error status (404)
\* or a retriable one (503)
GetAnswers ==
    {TransportError}
    \cup {Answer(FALSE, 200, "", TRUE, FALSE, n) : n \in BOOLEAN}
    \cup {Answer(FALSE, 200, "", FALSE, FALSE, FALSE)}
    \cup {Answer(FALSE, s, "", TRUE, FALSE, FALSE) : s \in {404, 503}}

\* the answers to POST newAccount: 200/201 with a Location and an account
\* body (well-formed or not), a final error (400), a bad-nonce error (400)
\* and a retriable status (429); each carries a Replay-Nonce header
PostAnswers ==
    {TransportError}
    \cup {Answer(FALSE, s, l, b, FALSE, TRUE) :
             s \in {200, 201}, l \in Locations, b \in BOOLEAN}
    \cup {Answer(FALSE, 400, "", TRUE, bn, TRUE) : bn \in BOOLEAN}
    \cup {Answer(FALSE, 429, "", TRUE, FALSE, TRUE)}

\* the requests of method m sent so far
Requests(m) == {i \in DOMAIN net : net[i].method = m}

\* how many requests of method m were sent again
Resent(m) == IF Requests(m) = {} THEN 0 ELSE Cardinality(Requests(m)) - 1

\* get: the answer is tried again
getRetries(a) == ~a.transport /\ a.status # 200 /\ isRetriable(a.status)

\* post: the answer is tried again (a bad nonce, or a retriable status)
postRetries(a) ==
    /\ ~a.transport
    /\ ~wantStatusOKCreated(a.status)
    /\ (a.badNonce \/ isRetriable(a.status))

\* addNonce(h): the Replay-Nonce of an answer, when it has one, is cached
addNonce(c, a, n) == IF a.nonce THEN [c EXCEPT !.nonce = n] ELSE c

\* Register returns (a, e) to main: `account, err := client.Register(...)`;
\* the key-only variant discards the account (`_, err = ...`)
Return(a, e) ==
    /\ account' = IF variant = "credentials" THEN a ELSE account
    /\ err' = e
    /\ pc' = "check_err"

\* client.Register(ctx, &acme.Account{Contact: []string{contactAddress}}, acme.AcceptTOS)
RegisterCall ==
    /\ pc = "register"
    /\ registerCalls' = registerCalls + 1
    /\ retries' = 0
    /\ IF client.Key = NoKey
       THEN Return(NilAccount, "acme: client.Key must be set to Register")
       ELSE pc' = "Discover" /\ UNCHANGED <<account, err>>
    /\ UNCHANGED <<variant, emailAddress, useStaging, key, keyPemData, file,
                   directoryUrl, contactAddress, client, req, jws, response,
                   accountCredentialsData, fatal, net, nonceSeq, keysGenerated>>

\* c.directoryURL(): the client's DirectoryURL, LetsEncryptURL when it
\* is empty
directoryURL(c) ==
    IF c.DirectoryURL # "" THEN Endpoint(c.DirectoryURL, "directory")
    ELSE Endpoint(LetsEncryptURL, "directory")

\* Discover without a cached directory: c.get(ctx, c.directoryURL(),
\* wantStatus(200)), tried again on a retriable status; addNonce; the
\* document of the answer is decoded and copied to c.dir
getDirectory ==
    /\ net' = Append(net, [method |-> "GET", url |-> directoryURL(client),
                           body |-> NoJws])
    /\ \E a \in GetAnswers,
          v \in DirectoryDocuments(directoryURL(client).directory) \cup {NoDocument} :
          /\ getRetries(a) => Cardinality(Requests("GET")) < MaxRetries
          \* only a 200 answer with a well-formed body holds a document
          /\ (v = NoDocument) <=> (a.transport \/ a.status # 200 \/ ~a.bodyOK)
          /\ nonceSeq' = IF a.nonce THEN nonceSeq + 1 ELSE nonceSeq
          /\ IF a.transport
             THEN Return(NilAccount, "transport error") /\ UNCHANGED <<client, retries>>
             ELSE IF a.status = 200
             THEN IF a.bodyOK
                  THEN /\ client' = [addNonce(client, a, nonceSeq')
                                        EXCEPT !.dir = Directory(v)]
                       /\ pc' = "registerRFC"
                       /\ UNCHANGED <<account, err, retries>>
                  ELSE /\ client' = addNonce(client, a, nonceSeq')
                       /\ Return(NilAccount, "invalid directory")
                       /\ UNCHANGED retries
             ELSE IF isRetriable(a.status)
             THEN /\ retries' = retries + 1
                  /\ UNCHANGED <<pc, client, account, err>>
             ELSE Return(NilAccount, "acme.Error") /\ UNCHANGED <<client, retries>>

\* c.Discover: the cached directory when c.dir is set, or else the
\* directory fetched from c.directoryURL()
Discover ==
    /\ pc = "Discover"
    /\ IF client.dir.fetched
       THEN /\ pc' = "registerRFC"
            /\ UNCHANGED <<net, nonceSeq, client, account, err, retries>>
       ELSE getDirectory
    /\ UNCHANGED <<variant, emailAddress, useStaging, key, keyPemData, file,
                   directoryUrl, contactAddress, req, jws, response,
                   accountCredentialsData, fatal, keysGenerated, registerCalls>>

\* registerRFC: the request; TermsAgreed is asked of prompt only when the
\* directory advertises terms
registerRFC ==
    /\ pc = "registerRFC"
    /\ req' = [built       |-> TRUE,
               Contact     |-> <<contactAddress>>,
               TermsAgreed |-> IF client.dir.Terms # ""
                               THEN AcceptTOS(client.dir.Terms) ELSE FALSE]
    /\ retries' = 0
    /\ pc' = "popNonce"
    /\ UNCHANGED <<variant, emailAddress, useStaging, key, keyPemData, file,
                   directoryUrl, contactAddress, client, jws, response, account,
                   accountCredentialsData, err, fatal, net, nonceSeq,
                   keysGenerated, registerCalls>>

\* the URLs popNonce gives to fetchNonce, in order, for a request to url:
\* dir.NonceURL when the directory names one; otherwise c.directoryURL()
\* and then, if that fetch fails and url is another URL, url
nonceURLs(c, url) ==
    IF c.dir.NonceURL # NoURL THEN <<c.dir.NonceURL>>
    ELSE IF url # directoryURL(c) THEN <<directoryURL(c), url>>
    ELSE <<directoryURL(c)>>

\* the HEAD requests of the first n fetches of urls; no request can be sent
\* to the empty URL
fetchRequests(urls, n) ==
    LET sent == SelectSeq(SubSeq(urls, 1, n), LAMBDA u : u # NoURL)
    IN  [k \in DOMAIN sent |-> [method |-> "HEAD", url |-> sent[k], body |-> NoJws]]

\* what fetchNonce(url) returns: a nonce ("nil"), or the error of a HEAD
\* that cannot be sent (the empty URL), of one that fails in the
\* transport, of an answer without a Replay-Nonce and with a status above
\* 299 (responseError), or of any other answer without a Replay-Nonce
FetchNonceResults ==
    {"nil", "unsupported protocol scheme", "transport error", "acme.Error",
     "acme: nonce not found"}

\* popNonce(ctx, url) of the post to dir.RegURL: a cached nonce, or else
\* fetchNonce on each of nonceURLs in turn until one gives a nonce; the
\* error of the last fetch is returned when none does
popNonce ==
    /\ pc = "popNonce"
    /\ IF client.nonce # 0
       THEN /\ jws' = [NoJws EXCEPT !.nonce = client.nonce]
            /\ client' = [client EXCEPT !.nonce = 0]
            /\ pc' = "sign"
            /\ UNCHANGED <<net, nonceSeq, account, err>>
       ELSE \E n \in DOMAIN nonceURLs(client, client.dir.RegURL),
               e \in FetchNonceResults :
               \* the fetches before the n-th have failed, and the n-th
               \* is the last one unless it gives a nonce
               /\ (nonceURLs(client, client.dir.RegURL)[n] = NoURL)
                     <=> (e = "unsupported protocol scheme")
               /\ e # "nil" => n = Len(nonceURLs(client, client.dir.RegURL))
               /\ net' = net \o fetchRequests(nonceURLs(client, client.dir.RegURL), n)
               /\ IF e = "nil"
                  THEN /\ nonceSeq' = nonceSeq + 1
                       /\ jws' = [NoJws EXCEPT !.nonce = nonceSeq']
                       /\ pc' = "sign"
                       /\ UNCHANGED <<client, account, err>>
                  ELSE /\ Return(NilAccount, e)
                       /\ UNCHANGED <<client, jws, nonceSeq>>
    /\ UNCHANGED <<variant, emailAddress, useStaging, key, keyPemData, file,
                   directoryUrl, contactAddress, req, retries, response,
                   accountCredentialsData, fatal, keysGenerated, registerCalls>>

\* jwsEncodeJSON(req, c.Key, noKeyID, nonce, url): signed by the client's
\* key, with the public JWK in the header
sign ==
    /\ pc = "sign"
    /\ jws' = [signed   |-> TRUE,
               nonce    |-> jws.nonce,
               url      |-> client.dir.RegURL,
               jwk      |-> PublicJWK(client.Key),
               payload  |-> req,
               signedBy |-> client.Key]
    /\ pc' = "submit"
    /\ UNCHANGED <<variant, emailAddress, useStaging, key, keyPemData, file,
                   directoryUrl, contactAddress, client, req, retries, response,
                   account, accountCredentialsData, err, fatal, net, nonceSeq,
                   keysGenerated, registerCalls>>

\* postNoRetry: the signed request is sent to dir.RegURL; no request can
\* be sent to the empty URL
submit ==
    /\ pc = "submit"
    /\ IF client.dir.RegURL = NoURL
       THEN /\ Return(NilAccount, "unsupported protocol scheme")
            /\ net' = net
       ELSE /\ net' = Append(net, [method |-> "POST", url |-> client.dir.RegURL,
                                   body |-> jws])
            /\ pc' = "await"
            /\ UNCHANGED <<account, err>>
    /\ UNCHANGED <<variant, emailAddress, useStaging, key, keyPemData, file,
                   directoryUrl, contactAddress, client, req, jws, retries,
                   response, accountCredentialsData, fatal,
                   nonceSeq, keysGenerated, registerCalls>>

\* responseAccount: the account of a 200/201 answer; its URI is the
\* Location header
responseAccount(a) == [isNil |-> FALSE, URI |-> a.location]

\* what Register returns for a 200/201 answer with a well-formed body
registerResult(a) ==
    IF a.status = 200
    THEN [account |-> NilAccount, err |-> "ErrAccountAlreadyExists"]
    ELSE [account |-> responseAccount(a), err |-> "nil"]

\* the answer to the POST: post tries a bad nonce or a retriable status
\* again, returns any other error, and registerRFC reads the account
\* off a 200/201
receive ==
    /\ pc = "await"
    /\ \E a \in PostAnswers :
          /\ postRetries(a) => Resent("GET") + Resent("POST") < MaxRetries
          /\ response' = a
          /\ nonceSeq' = IF a.nonce THEN nonceSeq + 1 ELSE nonceSeq
          /\ IF a.transport
             THEN Return(NilAccount, "transport error") /\ UNCHANGED <<client, retries>>
             ELSE IF wantStatusOKCreated(a.status)
             THEN IF ~a.bodyOK
                  THEN /\ client' = addNonce(client, a, nonceSeq')
                       /\ Return(NilAccount, "acme: invalid account response")
                       /\ UNCHANGED retries
                  ELSE /\ client' = [addNonce(client, a, nonceSeq')
                                        EXCEPT !.KID = responseAccount(a).URI]
                       /\ Return(registerResult(a).account, registerResult(a).err)
                       /\ UNCHANGED retries
             ELSE IF a.badNonce \/ isRetriable(a.status)
             THEN /\ client' = IF a.badNonce THEN [client EXCEPT !.nonce = 0]
                                ELSE addNonce(client, a, nonceSeq')
                  /\ retries' = retries + 1
                  /\ pc' = "popNonce"
                  /\ UNCHANGED <<account, err>>
             ELSE /\ client' = addNonce(client, a, nonceSeq')
                  /\ Return(NilAccount, "acme.Error")
                  /\ UNCHANGED retries
    /\ UNCHANGED <<variant, emailAddress, useStaging, key, keyPemData, file,
                   directoryUrl, contactAddress, req, jws,
                   accountCredentialsData, fatal, net, keysGenerated,
                   registerCalls>>

---------------------------------------------------------------------------
(* main, after client.Register has returned *)

\* if err != nil { LogFatal("An error occurred when registering the account.") }
\* the key-only variant ends here
CheckErr ==
    /\ pc = "check_err"
    /\ IF err # "nil"
       THEN LogFatal("An error occurred when registering the account.", "InputError")
       ELSE /\ pc' = IF variant = "key_only" THEN "done" ELSE "check_account"
            /\ fatal' = fatal
    /\ UNCHANGED <<variant, emailAddress, useStaging, key, keyPemData, file,
                   directoryUrl, contactAddress, client, req, jws, retries,
                   response, account, accountCredentialsData, err, net,
                   nonceSeq, keysGenerated, registerCalls>>

\* encoding/json.Marshal of a struct of two strings: it cannot fail
JsonMarshal(v) == [err |-> FALSE, data |-> [format |-> "json", value |-> v]]

\* letsencryptUtilsTypes.AccountCredentials{Uri: accountUri, Key: string(keyPemData)}
AccountCredentials(accountUri, keyPem) == [Uri |-> accountUri, Key |-> keyPem]

\* if account == nil { LogFatal }; if account.URI == "" { LogFatal };
\* accountCredentialsData, err := json.Marshal(accountCredentials)
CheckAccount ==
    /\ pc = "check_account"
    /\ IF account.isNil
       THEN LogFatal("The account is nil.", "nil")
            /\ UNCHANGED accountCredentialsData
       ELSE IF account.URI = ""
       THEN LogFatal("The account URI is empty.", "nil")
            /\ UNCHANGED accountCredentialsData
       ELSE LET m == JsonMarshal(AccountCredentials(account.URI, keyPemData))
            IN  IF m.err
                THEN LogFatal("An error occurred when marshalling the account credentials.",
                              "CauseError")
                     /\ UNCHANGED accountCredentialsData
                ELSE /\ accountCredentialsData' = m.data
                     /\ pc' = "write_credentials"
                     /\ fatal' = fatal
    /\ UNCHANGED <<variant, emailAddress, useStaging, key, keyPemData, file,
                   directoryUrl, contactAddress, client, req, jws, retries,
                   response, account, err, net, nonceSeq, keysGenerated,
                   registerCalls>>

\* WriteCredentialsFile writing the bare key, as the key-only variant does
WriteCredentialsFile_WritesKeyOnly ==
    /\ pc = "write_credentials"
    /\ \E w \in WriteFile(file, keyPemData) :
          /\ file' = w.file
          /\ IF w.err
             THEN LogFatal("An error occurred when writing the account credentials data to disk.",
                           "InputError")
             ELSE pc' = "done" /\ fatal' = fatal
    /\ UNCHANGED <<variant, emailAddress, useStaging, key, keyPemData,
                   directoryUrl, contactAddress, client, req, jws, retries,
                   response, account, accountCredentialsData, err, net,
                   nonceSeq, keysGenerated, registerCalls>>

\* os.WriteFile(accountCredentialsOutPath, accountCredentialsData, 0600)
WriteCredentialsFile ==
    /\ pc = "write_credentials"
    /\ \E w \in WriteFile(file, accountCredentialsData) :
          /\ file' = w.file
          /\ IF w.err
             THEN LogFatal("An error occurred when writing the account credentials data to disk.",
                           "InputError")
             ELSE pc' = "done" /\ fatal' = fatal
    /\ UNCHANGED <<variant, emailAddress, useStaging, key, keyPemData,
                   directoryUrl, contactAddress, client, req, jws, retries,
                   response, account, accountCredentialsData, err, net,
                   nonceSeq, keysGenerated, registerCalls>>

---------------------------------------------------------------------------

Next ==
    \/ CheckEmpty
    \/ ValidateEmail
    \/ ProduceKey
    \/ EncodeKey
    \/ WriteKeyFile
    \/ SelectDirectory
    \/ RegisterCall
    \/ Discover
    \/ registerRFC
    \/ popNonce
    \/ sign
    \/ submit
    \/ receive
    \/ CheckErr
    \/ CheckAccount
    \/ WriteCredentialsFile

Spec == Init /\ [][Next]_vars

\* main is sequential: whenever a step is possible, one is taken
FairSpec == SampleInit /\ [][Next]_vars /\ WF_vars(Next)

---------------------------------------------------------------------------
(* Vocabulary of the properties *)

\* the run is over: exit code 0 ("done") or LogFatal ("fatal")
Terminal == pc \in {"done", "fatal"}

\* the -email values mail.ParseAddress accepts, enumerated once
ValidEmails == {e : e \in {x \in Emails : ~ParseAddress(x).err}}

\* the run has written nothing at the output path
Untouched == file \in {NoFile, OldFile}

\* the newAccount requests sent so far
Posts == {i \in DOMAIN net : net[i].method = "POST"}

\* the last newAccount answer is `status` with a Location header and a
\* well-formed account body
Answered(status) ==
    /\ response.received /\ ~response.transport
    /\ response.status = status
    /\ response.location # ""
    /\ response.bodyOK

\* the PEM text p holds the private key k
PemHoldsKey(p, k) ==
    /\ p.format = "pem" /\ p.type = "EC PRIVATE KEY"
    /\ p.bytes.namedCurve = k.curve /\ p.bytes.privateKey = k.d

\* the key text a completely written output file holds: the file itself
\* (bare PEM) or the Key field of the JSON record
KeyInFile == IF file.data.format = "json" THEN file.data.value.Key ELSE file.data

\* the states of the registration exchange, in order
Rank ==
    CASE pc = "sign" -> 1                                  \* NonceAcquired
      [] pc = "submit" -> 2                                \* RequestSigned
      [] pc \in {"await", "check_err", "check_account",
                 "write_credentials"} -> 3                 \* Submitted
      [] pc \in {"done", "fatal"} -> 4                     \* Registered, Failed
      [] OTHER -> 0                                        \* Unregistered

---------------------------------------------------------------------------
(* C1 *)

\* C1 (as claimed): in every terminal state either the registration
\* succeeded with a non-empty account URI and the complete output file is
\* written, or the run failed and no output file is written.
C1_AllOrNothing ==
    Terminal =>
        \/ /\ pc = "done"
           /\ err = "nil" /\ client.KID # ""
           /\ IF variant = "key_only"
              THEN PemHoldsKey(file.data, key)
              ELSE /\ file.data.format = "json"
                   /\ file.data.value.Uri = client.KID
                   /\ PemHoldsKey(file.data.value.Key, key)
        \/ /\ pc = "fatal"
           /\ Untouched

---------------------------------------------------------------------------
(* C2 *)

\* C2 (as claimed): an empty or unparseable email ends the run with an
\* InputError, before any key is generated, any network call is made and
\* any file is written.
C2_InvalidEmailIsInputError ==
    emailAddress \notin ValidEmails =>
        /\ pc \in {"check_empty", "parse_address", "fatal"}
        /\ keysGenerated = 0 /\ key = NoKey
        /\ registerCalls = 0 /\ net = <<>>
        /\ Untouched
        /\ pc = "fatal" => fatal.err = "InputError"

---------------------------------------------------------------------------
(* C3 *)

\* C3 (as claimed): a 200 answer with a Location is treated as the 201
\* answer is: Register succeeds, the account URI is that Location, and the
\* run does not fail at the registration.
C3_AlreadyRegisteredIsSuccess ==
    Answered(200) =>
        /\ err = "nil"
        /\ variant = "credentials" => account = [isNil |-> FALSE, URI |-> response.location]
        /\ fatal.called => fatal.msg # "An error occurred when registering the account."

---------------------------------------------------------------------------
(* C5 *)

\* C5 (as claimed): in the credentials variant, when Register returns no
\* error and an account that is nil or has an empty URI, the run fails
\* with an InvariantError at that check and writes nothing; no record with
\* an empty Uri is ever built or written.
C5_EmptyUriIsInvariantError ==
    variant = "credentials" =>
        /\ file.data.format = "json" => file.data.value.Uri # ""
        /\ accountCredentialsData # NoData => accountCredentialsData.value.Uri # ""
        /\ (err = "nil" /\ (account.isNil \/ account.URI = "")) =>
              /\ pc \in {"check_err", "check_account", "fatal"}
              /\ Untouched
              /\ pc = "fatal" => fatal.err = "InvariantError"

---------------------------------------------------------------------------
(* C6 *)

\* the JSON record the claim expects for Location l
ExpectedRecord(l) ==
    /\ file.exists
    /\ file.data.format = "json"
    /\ file.data.value.Uri = l
    /\ PemHoldsKey(file.data.value.Key, client.Key)

\* C6 (as claimed): a 201 answer with Location L makes the run succeed
\* with Account.URI = L and the record {uri: L, key: PEM of the key}
\* persisted.
C6_CreatedAlwaysSucceeds ==
    (variant = "credentials" /\ Terminal /\ Answered(201)) =>
        /\ pc = "done"
        /\ account.URI = response.location
        /\ ExpectedRecord(response.location)

\* C6 (amended): a 201 answer with a non-empty Location L and a well-formed
\* account body makes Register return Account.URI = L without error; nothing
\* is written before the write of the record; the run then succeeds with
\* the record {Uri: L, Key: PEM of the key} persisted, unless writing the
\* file fails, which ends the run in failure with whatever the failed write
\* left at the path.
C6_CreatedSucceedsUnlessWriteFails ==
    (variant = "credentials" /\ Answered(201)) =>
        /\ err = "nil"
        /\ account = [isNil |-> FALSE, URI |-> response.location]
        /\ pc \in {"check_err", "check_account", "write_credentials", "done", "fatal"}
        /\ pc \in {"check_err", "check_account", "write_credentials"} => Untouched
        /\ pc = "done" => ExpectedRecord(response.location)
        /\ pc = "fatal" =>
              /\ fatal.msg = "An error occurred when writing the account credentials data to disk."
              /\ \/ Untouched
                 \/ file.data.format \in {"empty", "partial"}
                 \/ ExpectedRecord(response.location)

\* a run has registered https://ca/acct/2 and written its record
C6_Witness ==
    /\ variant = "credentials"
    /\ pc = "done"
    /\ Answered(201)
    /\ response.location = "https://ca/acct/2"
    /\ ExpectedRecord("https://ca/acct/2")

---------------------------------------------------------------------------
(* C7 *)

\* no request is sent twice
NoResend ==
    \A i, j \in DOMAIN net :
        (i < j) => ~(net[i].method = net[j].method /\ net[i].url = net[j].url)

\* C7 (as claimed): the run only moves forward through the states of the
\* exchange, Register is called at most once, no request is retried, no
\* step follows a terminal state, and the run reaches a terminal state.
C7_ForwardNoRetry ==
    /\ [][Rank' >= Rank]_vars
    /\ [](registerCalls <= 1)
    /\ [](NoResend)
    /\ [][~Terminal]_vars
    /\ <>Terminal

---------------------------------------------------------------------------
(* C8 *)

\* C8 (as claimed): every newAccount request carries exactly the contact
\* "mailto:" + email, of a validated email, and TermsAgreed = true.
C8_ContactAndTermsAlwaysAgreed ==
    \A i \in Posts :
        /\ net[i].body.payload.Contact =
              << <<"m", "a", "i", "l", "t", "o", ":">> \o emailAddress >>
        /\ emailAddress \in ValidEmails
        /\ net[i].body.payload.TermsAgreed = TRUE

\* C8 (amended): every newAccount request carries exactly the contact
\* "mailto:" + email, of an email mail.ParseAddress has accepted;
\* TermsAgreed is true when the CA's directory advertises terms of service
\* and unset when it does not.
C8_ContactAndTermsWhenAdvertised ==
    \A i \in Posts :
        /\ net[i].body.payload.Contact =
              << <<"m", "a", "i", "l", "t", "o", ":">> \o emailAddress >>
        /\ emailAddress \in ValidEmails
        /\ net[i].body.payload.TermsAgreed = (client.dir.Terms # "")

\* a newAccount request with the terms agreed has been sent for " a@a",
\* the leading space kept in the contact
C8_Witness ==
    /\ emailAddress = <<" ", "a", "@", "a">>
    /\ \E i \in Posts :
          /\ net[i].body.payload.TermsAgreed
          /\ net[i].body.payload.Contact =
                << <<"m", "a", "i", "l", "t", "o", ":", " ", "a", "@", "a">> >>

---------------------------------------------------------------------------
(* C9 *)

\* the directory the claim expects for the -staging flag
ChosenDirectory ==
    IF useStaging
    THEN "https://acme-staging-v02.api.letsencrypt.org/directory"
    ELSE "https://acme-v02.api.letsencrypt.org/directory"

\* C9 (as claimed): the directory URL is the production directory without
\* -staging and the staging directory with it; the client is given that
\* URL, and every request of the run goes to that environment.
C9_DirectoryFollowsStagingFlag ==
    /\ directoryUrl \in {"", ChosenDirectory}
    /\ client # NoClient =>
          (directoryUrl = ChosenDirectory /\ client.DirectoryURL = ChosenDirectory)
    /\ registerCalls > 0 => client # NoClient
    /\ \A i \in DOMAIN net : net[i].url.directory = ChosenDirectory

\* C9 (amended): the directory URL is the production directory without
\* -staging and the staging directory with it; the client is given that
\* URL; every GET of the run fetches that directory; every POST goes to the
\* newAccount URL of the fetched directory document; every HEAD goes to the
\* document's newNonce URL or, when it names none, to the directory URL
\* and, right after a HEAD to the directory URL, to the newAccount URL.
C9_DirectoryFetchFollowsStagingFlag ==
    /\ directoryUrl \in {"", ChosenDirectory}
    /\ client # NoClient =>
          (directoryUrl = ChosenDirectory /\ client.DirectoryURL = ChosenDirectory)
    /\ registerCalls > 0 => client # NoClient
    /\ \A i \in DOMAIN net :
          LET chosen == [directory |-> ChosenDirectory, resource |-> "directory"]
              none   == [directory |-> "", resource |-> ""]
          IN  CASE net[i].method = "GET" -> net[i].url = chosen
                [] net[i].method = "POST" ->
                      /\ client.dir.fetched
                      /\ net[i].url # none
                      /\ net[i].url = client.dir.RegURL
                [] net[i].method = "HEAD" ->
                      /\ client.dir.fetched
                      /\ IF client.dir.NonceURL # none
                         THEN net[i].url = client.dir.NonceURL
                         ELSE \/ net[i].url = chosen
                              \/ /\ net[i].url # none
                                 /\ net[i].url = client.dir.RegURL
                                 /\ i > 1
                                 /\ net[i - 1].method = "HEAD"
                                 /\ net[i - 1].url = chosen

\* a staging run has fetched the staging directory, asked the production
\* newNonce for a nonce and posted to the staging newAccount, as the
\* directory document said
C9_Witness ==
    /\ useStaging
    /\ \E i, j, k \in DOMAIN net :
          /\ net[i].method = "GET"
          /\ net[i].url.directory = "https://acme-staging-v02.api.letsencrypt.org/directory"
          /\ net[j].method = "HEAD"
          /\ net[j].url.directory = "https://acme-v02.api.letsencrypt.org/directory"
          /\ net[k].method = "POST"
          /\ net[k].url = client.dir.RegURL
          /\ net[k].url.directory = "https://acme-staging-v02.api.letsencrypt.org/directory"

---------------------------------------------------------------------------
(* C10 *)

\* C10: at most one key is generated, exactly one once key generation has
\* succeeded, and it is never replaced; the PEM data, the client, every
\* signed request and every completely written file hold that key.
C10_OneKeyEverywhere ==
    /\ [][key # NoKey => key' = key]_vars
    /\ [](/\ keysGenerated <= 1
          /\ (key # NoKey) <=> (keysGenerated = 1)
          /\ (pc \notin {"check_empty", "parse_address", "generate_key", "fatal"})
                => keysGenerated = 1
          /\ keyPemData # NoData => PemHoldsKey(keyPemData, key)
          /\ client # NoClient => client.Key = key
          /\ file.data.format \in {"pem", "json"} => PemHoldsKey(KeyInFile, key)
          /\ pc = "done" => file.data.format \in {"pem", "json"}
          /\ \A i \in Posts :
                /\ net[i].body.signed
                /\ net[i].body.signedBy = key
                /\ net[i].body.jwk = [crv |-> "P-256", pub |-> key.d])

\* a credentials run with the second key has registered and written it
C10_Witness ==
    /\ variant = "credentials"
    /\ pc = "done"
    /\ key.d = 2
    /\ Posts # {}
    /\ file.exists /\ PemHoldsKey(file.data.value.Key, key)

=============================================================================
